---- MODULE Spec2Model ----
(***************************************************************************)
(* Model of the spike-processing pipeline of ephys/extraCellularRoutines.py *)
(* (detectSpikes, extractSpikes, makeSTH, makeSpikeDensity).                *)
(*                                                                         *)
(* Representation.                                                          *)
(*  - The Python heap is the sequence `heap` of XSG dictionaries; a         *)
(*    reference is an index into it.  copy.deepcopy allocates a new index.  *)
(*  - An XSG dictionary is a record: `keys` is the set of its keys          *)
(*    ('merged' in xsg.keys() is "merged" \in x.keys), the other fields     *)
(*    hold the values of the keys (<<>> or an empty record while absent).   *)
(*  - A single-trial value and a per-trial list are both stored as a        *)
(*    sequence indexed by trial; an unmerged XSG has exactly one trial and  *)
(*    a one-element sampleRate standing for the scalar.                     *)
(*  - Times and rates are exact rationals [num, den] (the code uses         *)
(*    floats); a waveform sample x / sqrt(s) is the record [num |-> x,      *)
(*    den2 |-> s]; a kernel weight binSize * pdf(x; 0, sigma) is the record *)
(*    [x, sigma, scale]; a smoothed rate is the sequence of the input rates *)
(*    that multiply the successive kernel weights.                          *)
(***************************************************************************)
EXTENDS Integers, Sequences, FiniteSets, TLC

VARIABLES heap, ret

vars == <<heap, ret>>

(***************************************************************************)
(* Bounds of the model.                                                     *)
(***************************************************************************)
\* longest trace drawn exhaustively (samples)
MaxLen == 3
\* most trials in a merged XSG
MaxTrials == 2
\* most XSG dictionaries alive on the heap (one loaded, the rest returned)
MaxHeap == 4

\* sample values, around the scalar threshold 1
Levels == {0, 1, 2}
SampleRates == {1000, 10000}
Edges == {"rising", "falling", "both"}
Widths == {2, 3, 4}
BinSizes == {1, 2, 3}
Sigmas == {1, 2}

\* the trace of the specification's worked example
ExampleTrace == <<0, 0, 2, 2, 0, 0, 2, 2, 0>>

(***************************************************************************)
(* Helpers for sequences and rationals.                                     *)
(***************************************************************************)
Min(a, b) == IF a <= b THEN a ELSE b

Max(a, b) == IF a >= b THEN a ELSE b

\* ceil(a / b) for a >= 0, b > 0
CeilDiv(a, b) == (a + b - 1) \div b

Rat(n, d) == [num |-> n, den |-> d]

\* a <= b and a < b on rationals with positive denominators
RatLe(a, b) == a.num * b.den <= b.num * a.den

RatLt(a, b) == a.num * b.den < b.num * a.den

RECURSIVE SumSeq(_)
SumSeq(s) == IF s = <<>> THEN 0 ELSE Head(s) + SumSeq(Tail(s))

\* the elements of s whose index satisfies the mask, in index order (np.where)
RECURSIVE Where(_, _)
Where(mask, k) ==
    IF k > Len(mask) THEN <<>>
    ELSE IF mask[k] THEN <<k - 1>> \o Where(mask, k + 1)
    ELSE Where(mask, k + 1)

(***************************************************************************)
(* XSG dictionaries.                                                        *)
(***************************************************************************)
NoHist == [binCenters |-> <<>>, counts |-> <<>>, binEdges |-> <<>>,
           rates |-> <<>>, binSize |-> 0]

NoDensity == [binCenters |-> <<>>, kernel |-> <<>>, sigma |-> 0, rates |-> <<>>]

\* an XSG as the loader hands it over: raw traces and sample rate only
RawXSG(isMerged, nSamples, trials, rate) ==
    [keys |-> IF isMerged THEN {"ephys", "sampleRate", "merged"}
              ELSE {"ephys", "sampleRate"},
     nSamples |-> nSamples,
     chan0 |-> trials,
     sampleRate |-> rate,
     spikeTimes |-> <<>>,
     extractedSpikes |-> <<>>,
     spikeHist |-> NoHist,
     spikeDensity |-> NoDensity]

IsMerged(x) == "merged" \in x.keys

NoCall == [op |-> "none", in |-> 0, out |-> 0, err |-> "none",
           edge |-> "", thresh |-> [isList |-> FALSE, items |-> <<>>],
           width |-> 0, energy |-> FALSE, binSize |-> 0, sigma |-> 0]

(***************************************************************************)
(* Threshold and filter arguments of detectSpikes.  A threshold entry is a  *)
(* float (kind "scalar", vals = <<v>>) or an np.ndarray (kind "wave"); the  *)
(* argument is one entry (isList = FALSE, items = <<entry>>) or a Python    *)
(* list of entries.  filter_trace is a bool or a list of bools.             *)
(***************************************************************************)
Scalar(v) == [kind |-> "scalar", vals |-> <<v>>]

Wave(w) == [kind |-> "wave", vals |-> w]

One(entry) == [isList |-> FALSE, items |-> <<entry>>]

List(entries) == [isList |-> TRUE, items |-> entries]

(***************************************************************************)
(* detectSpikes                                                             *)
(***************************************************************************)
\* lines 67-68: a threshold that is no ndarray is broadcast over the trace
Explicit(trace, thresh) ==
    IF thresh.kind = "wave" THEN thresh.vals
    ELSE [k \in 1..Len(trace) |-> 1 * thresh.vals[1]]

\* CrossingMask with non-strict comparisons
CrossingMaskLoose(trace, thresh, edge) ==
    [k \in 1..(Len(trace) - 1) |->
        IF edge = "rising"
        THEN trace[k] <= thresh[k] /\ trace[k + 1] >= thresh[k + 1]
        ELSE trace[k] >= thresh[k] /\ trace[k + 1] <= thresh[k + 1]]

\* lines 71 and 73: the boolean array np.where scans, one entry per
\* adjacent pair (trace[:-1] against trace[1:])
CrossingMask(trace, thresh, edge) ==
    [k \in 1..(Len(trace) - 1) |->
        IF edge = "rising"
        THEN trace[k] < thresh[k] /\ trace[k + 1] > thresh[k + 1]
        ELSE trace[k] > thresh[k] /\ trace[k + 1] < thresh[k + 1]]

\* lines 58-74: the per-trial detector; `i` is bound only by one of the two
\* edge branches, so any other edge raises UnboundLocalError at the return
detect(trace, thresh, filter_trace, sample_rate, edge) ==
    IF edge \notin {"rising", "falling"}
    THEN [err |-> "UnboundLocalError", val |-> <<>>]
    ELSE LET i == Where(CrossingMask(trace, Explicit(trace, thresh), edge), 1)
         IN  [err |-> "none",
              val |-> [k \in 1..Len(i) |-> Rat(i[k] * 1000, sample_rate)]]

\* Nth handing every trial the first element
NthFirst(arg, k) == arg.items[1]

\* itertools.repeat / a list under zip: the k-th element handed to the map
Nth(arg, k) == IF arg.isList THEN arg.items[k] ELSE arg.items[1]

\* zip stops at its shortest argument; repeat(...) is endless
ZipLen(nTrials, thresh, filter_trace) ==
    Min(nTrials,
        Min(IF thresh.isList THEN Len(thresh.items) ELSE nTrials,
            IF filter_trace.isList THEN Len(filter_trace.items) ELSE nTrials))

\* the first error a Python 2 (eager) map over per-trial results raises
FirstErr(results) ==
    IF \A k \in 1..Len(results) : results[k].err = "none" THEN "none"
    ELSE LET k == CHOOSE j \in 1..Len(results) :
                      /\ results[j].err # "none"
                      /\ \A h \in 1..(j - 1) : results[h].err = "none"
         IN  results[k].err

Vals(results) == [k \in 1..Len(results) |-> results[k].val]

\* a "copy" that is the same dictionary (xsg = orig_xsg)
aliasCopy(r) == r

\* line 55 (and 113, 196, 261): copy.deepcopy returns a reference to a
\* fresh dictionary, which the stage then fills
deepcopy(r) == Len(heap) + 1

\* assignment through a reference
Store(x, value) ==
    IF x > Len(heap) THEN Append(heap, value) ELSE [heap EXCEPT ![x] = value]

\* lines 54-87.  The assert of line 54 tests a non-empty tuple and never
\* fires.
DetectSpikes(r, thresh, edge, filter_trace) ==
    /\ r \in 1..Len(heap)
    /\ LET orig == heap[r]
           xsg == deepcopy(r)
           call == [NoCall EXCEPT !.op = "detectSpikes", !.in = r,
                                  !.edge = edge, !.thresh = thresh]
           results ==
               IF IsMerged(orig)
               THEN [k \in 1..ZipLen(Len(orig.chan0), thresh, filter_trace) |->
                        detect(orig.chan0[k], Nth(thresh, k),
                               Nth(filter_trace, k), orig.sampleRate[1], edge)]
               ELSE <<detect(orig.chan0[1], thresh.items[1],
                             filter_trace.items[1], orig.sampleRate[1], edge)>>
           err == IF IsMerged(orig) /\ orig.sampleRate = <<>> THEN "IndexError"
                  ELSE FirstErr(results)
       IN  IF err # "none"
           THEN /\ heap' = heap
                /\ ret' = [call EXCEPT !.err = err]
           ELSE /\ heap' = Store(xsg, [orig EXCEPT
                                 !.keys = @ \cup {"spikeTimes"},
                                 !.spikeTimes = Vals(results)])
                /\ ret' = [call EXCEPT !.out = xsg]

(***************************************************************************)
(* extractSpikes                                                            *)
(***************************************************************************)
\* Python's data[a:b] on a sequence of length Len(data): a negative bound
\* counts from the end, and both bounds are clipped to the sequence
SliceBound(n, a) == IF a < 0 THEN Max(a + n, 0) ELSE Min(a, n)

Slice(data, a, b) ==
    LET lo == SliceBound(Len(data), a)
        hi == SliceBound(Len(data), b)
    IN  [k \in 1..Max(hi - lo, 0) |-> data[lo + k]]

\* line 119: int(spike*10), the fixed 10 kHz conversion (spike in ms)
SampleOf(spike) == (spike.num * 10) \div spike.den

\* lines 121 and 123: the right-hand side, before it is assigned
Window(data, sample, half_width, energy) ==
    LET w == Slice(data, sample - half_width, sample + half_width)
        e == SumSeq([k \in 1..Len(w) |-> w[k] * w[k]])
    IN  [k \in 1..Len(w) |->
            [num |-> w[k], den2 |-> IF energy THEN e ELSE 1]]

\* extracted_temp[:,i] = window: numpy accepts a window of `width` values,
\* broadcasts a window of one value, and raises ValueError otherwise
AssignColumn(width, window) ==
    IF Len(window) = width THEN [err |-> "none", val |-> window]
    ELSE IF Len(window) = 1
    THEN [err |-> "none", val |-> [k \in 1..width |-> window[1]]]
    ELSE [err |-> "ValueError", val |-> <<>>]

\* lines 115-124
extract(data, times, width, half_width, energy) ==
    LET cols == [i \in 1..Len(times) |->
                    AssignColumn(width,
                        Window(data, SampleOf(times[i]), half_width, energy))]
    IN  [err |-> FirstErr(cols),
         val |-> [rows |-> width, cols |-> Vals(cols)]]

\* lines 112-131
ExtractSpikes(r, width, energy) ==
    /\ r \in 1..Len(heap)
    /\ LET orig == heap[r]
           half_width == width \div 2
           xsg == deepcopy(r)
           call == [NoCall EXCEPT !.op = "extractSpikes", !.in = r,
                                  !.width = width, !.energy = energy]
           nZip == IF IsMerged(orig)
                   THEN Min(Len(orig.chan0), Len(orig.spikeTimes))
                   ELSE 1
           results == [k \in 1..nZip |->
                          extract(orig.chan0[k], orig.spikeTimes[k],
                                  width, half_width, energy)]
           err == IF "spikeTimes" \notin orig.keys THEN "KeyError"
                  ELSE FirstErr(results)
       IN  IF err # "none"
           THEN /\ heap' = heap
                /\ ret' = [call EXCEPT !.err = err]
           ELSE /\ heap' = Store(xsg, [orig EXCEPT
                                 !.keys = @ \cup {"extractedSpikes"},
                                 !.extractedSpikes = Vals(results)])
                /\ ret' = [call EXCEPT !.out = xsg]

(***************************************************************************)
(* makeSTH                                                                  *)
(***************************************************************************)
\* line 203: np.arange(0, nSamples / sampleRate * 1000.0, bin_size), the
\* edges 0, bin_size, 2*bin_size, ... below the duration (in ms)
Bins(nSamples, sampleRate, bin_size) ==
    [k \in 1..CeilDiv(nSamples * 1000, sampleRate * bin_size) |->
        Rat((k - 1) * bin_size, 1)]

\* np.histogram(spike_time, bins): bin k is [bins[k], bins[k+1]), the last
\* bin is closed on the right
Histogram(spike_time, bins) ==
    [k \in 1..(Len(bins) - 1) |->
        Cardinality({j \in 1..Len(spike_time) :
            /\ RatLe(bins[k], spike_time[j])
            /\ \/ RatLt(spike_time[j], bins[k + 1])
               \/ k = Len(bins) - 1 /\ RatLe(spike_time[j], bins[k + 1])})]

\* lines 206-210
makeHist(spike_time, bins) ==
    [bin_centers |-> [k \in 1..(Len(bins) - 1) |->
                         Rat(bins[k + 1].num + bins[k].num, 2)],
     counts |-> Histogram(spike_time, bins),
     bin_edges |-> bins]

\* lines 194-228.  The assert of line 194 tests a non-empty tuple and never
\* fires; a missing 'spikeTimes' raises KeyError at line 213 or 221.
MakeSTH(r, bin_size) ==
    /\ r \in 1..Len(heap)
    /\ LET orig == heap[r]
           xsg == deepcopy(r)
           call == [NoCall EXCEPT !.op = "makeSTH", !.in = r,
                                  !.binSize = bin_size]
           bins == Bins(orig.nSamples, orig.sampleRate[1], bin_size)
           temp_hist == [k \in 1..Len(orig.spikeTimes) |->
                            makeHist(orig.spikeTimes[k], bins)]
           err == IF IsMerged(orig) /\ orig.sampleRate = <<>> THEN "IndexError"
                  ELSE IF "spikeTimes" \notin orig.keys THEN "KeyError"
                  ELSE "none"
       IN  IF err # "none"
           THEN /\ heap' = heap
                /\ ret' = [call EXCEPT !.err = err]
           ELSE /\ heap' = Store(xsg, [orig EXCEPT
                    !.keys = @ \cup {"spikeHist"},
                    !.spikeHist =
                       [binCenters |-> [k \in 1..Len(temp_hist) |->
                                           temp_hist[k].bin_centers],
                        counts |-> [k \in 1..Len(temp_hist) |->
                                       temp_hist[k].counts],
                        binEdges |-> [k \in 1..Len(temp_hist) |->
                                         temp_hist[k].bin_edges],
                        rates |-> [k \in 1..Len(temp_hist) |->
                                      [b \in 1..Len(temp_hist[k].counts) |->
                                          Rat(temp_hist[k].counts[b] * 1000,
                                              bin_size)]],
                        binSize |-> bin_size]])
                /\ ret' = [call EXCEPT !.out = xsg]

(***************************************************************************)
(* makeSpikeDensity                                                         *)
(***************************************************************************)
\* line 263: np.arange(-3*sigma, 3*sigma, binSize)
KernelEdges(sigma, binSize) ==
    [k \in 1..CeilDiv(6 * sigma, binSize) |-> (k - 1) * binSize - 3 * sigma]

\* lines 264-265: norm.pdf(edges, 0, sigma) * binSize, kept symbolic
Kernel(sigma, binSize) ==
    LET edges == KernelEdges(sigma, binSize)
    IN  [k \in 1..Len(edges) |->
            [x |-> edges[k], sigma |-> sigma, scale |-> binSize]]

\* scipy's default boundary mode 'reflect' (d c b a | a b c d | d c b a):
\* the 0-based index inside 0..n-1 that index idx of the extended line reads
Reflect(idx, n) ==
    LET p == idx % (2 * n) IN IF p < n THEN p ELSE 2 * n - 1 - p

\* scipy.ndimage.convolve1d(input, weights) along one line: output bin l is
\* the sum over k of weights[k] * extended_input[l + len(weights)//2 - k];
\* the result keeps, for each bin, the inputs in the order of the weights
convolve1d(input, nWeights) ==
    [l \in 1..Len(input) |->
        [k \in 1..nWeights |->
            input[Reflect((l - 1) + (nWeights \div 2) - (k - 1), Len(input)) + 1]]]

\* lines 259-275
MakeSpikeDensity(r, sigma) ==
    /\ r \in 1..Len(heap)
    /\ LET orig == heap[r]
           xsg == deepcopy(r)
           call == [NoCall EXCEPT !.op = "makeSpikeDensity", !.in = r,
                                  !.sigma = sigma]
           binSize == orig.spikeHist.binSize
           kernel == Kernel(sigma, binSize)
           err == IF "spikeHist" \notin orig.keys THEN "KeyError"
                  ELSE IF ~(sigma >= binSize) THEN "AssertionError"
                  ELSE "none"
       IN  IF err # "none"
           THEN /\ heap' = heap
                /\ ret' = [call EXCEPT !.err = err]
           ELSE /\ heap' = Store(xsg, [orig EXCEPT
                    !.keys = @ \cup {"spikeDensity"},
                    !.spikeDensity =
                       [binCenters |-> orig.spikeHist.binCenters,
                        kernel |-> kernel,
                        sigma |-> sigma,
                        rates |-> [k \in 1..Len(orig.spikeHist.rates) |->
                                      convolve1d(orig.spikeHist.rates[k],
                                                 Len(kernel))]]])
                /\ ret' = [call EXCEPT !.out = xsg]

(***************************************************************************)
(* The caller.                                                              *)
(***************************************************************************)
\* a later change the caller makes to the dictionary the last call returned
AnnotateReturned ==
    /\ ret.out # 0
    /\ "note" \notin heap[ret.out].keys
    /\ heap' = [heap EXCEPT ![ret.out].keys = @ \cup {"note"}]
    /\ ret' = [ret EXCEPT !.op = "annotate"]

(***************************************************************************)
(* Inputs.                                                                  *)
(***************************************************************************)
Traces(n) == [1..n -> Levels]

SingleXSGs(traces, rates) ==
    {RawXSG(FALSE, Len(t), <<t>>, <<sr>>) : t \in traces, sr \in rates}

\* sampleRate of a merged XSG: a sequence, of which the code reads only
\* entry 0; its length is not tied to the number of trials by the code
RateSeqs == UNION {[1..k -> SampleRates] : k \in 0..2}

\* the trials merged XSGs are built from
MergedTrials == {<<0, 0, 2>>, <<0, 2, 0>>, <<2, 1, 0>>}

\* merged XSGs of 0..MaxTrials trials
MergedXSGs(trialSet, rateSeqs) ==
    UNION {{RawXSG(TRUE, 3, trials, rates) :
                trials \in [1..nTrials -> trialSet], rates \in rateSeqs} :
           nTrials \in 0..MaxTrials}

\* threshold waves tried on a trace of n samples
Waves(n) == {[k \in 1..n |-> 1], [k \in 1..n |-> IF k % 2 = 1 THEN 1 ELSE 2]}

Entries(n) == {Scalar(1)} \cup {Wave(w) : w \in Waves(n)}

\* every threshold argument in the documented domain of x: one entry, or
\* (merged only) a list with one entry per trial
Thresholds(x) ==
    {One(e) : e \in Entries(x.nSamples)}
    \cup (IF IsMerged(x)
          THEN {List(l) : l \in [1..Len(x.chan0) -> Entries(x.nSamples)]}
          ELSE {})

Filters(x) ==
    {One(FALSE), One(TRUE)}
    \cup (IF IsMerged(x)
          THEN {List([k \in 1..Len(x.chan0) |-> TRUE])}
          ELSE {})

DetectInputs ==
    SingleXSGs(UNION {Traces(n) : n \in 2..MaxLen} \cup {ExampleTrace},
               SampleRates)
    \cup MergedXSGs(MergedTrials, RateSeqs)

\* the XSGs the whole pipeline is run on: the example trace at 1 kHz, two
\* three-sample traces at the 10 kHz extractSpikes assumes, and merged XSGs
\* of no trial and of two trials
PipelineInputs ==
    {RawXSG(FALSE, 9, <<ExampleTrace>>, <<1000>>),
     RawXSG(FALSE, 3, <<<<0, 0, 2>>>>, <<10000>>),
     RawXSG(FALSE, 3, <<<<0, 2, 0>>>>, <<10000>>),
     RawXSG(TRUE, 3, <<>>, <<1000>>),
     RawXSG(TRUE, 3, <<<<0, 0, 2>>, <<2, 2, 0>>>>, <<1000, 1000>>)}

(***************************************************************************)
(* Specifications.                                                          *)
(***************************************************************************)
Init ==
    /\ ret = NoCall
    /\ \E x \in PipelineInputs : heap = <<x>>

\* the caller passes any XSG it holds, while the heap has room
CallDetectSpikes ==
    /\ Len(heap) < MaxHeap
    /\ \E r \in 1..Len(heap), edge \in Edges :
           DetectSpikes(r, One(Scalar(1)), edge, One(FALSE))

CallExtractSpikes ==
    /\ Len(heap) < MaxHeap
    /\ \E r \in 1..Len(heap), width \in Widths, energy \in BOOLEAN :
           ExtractSpikes(r, width, energy)

CallMakeSTH ==
    /\ Len(heap) < MaxHeap
    /\ \E r \in 1..Len(heap), bin_size \in BinSizes : MakeSTH(r, bin_size)

CallMakeSpikeDensity ==
    /\ Len(heap) < MaxHeap
    /\ \E r \in 1..Len(heap), sigma \in Sigmas : MakeSpikeDensity(r, sigma)

Next ==
    \/ CallDetectSpikes
    \/ CallExtractSpikes
    \/ CallMakeSTH
    \/ CallMakeSpikeDensity
    \/ AnnotateReturned

\* the whole pipeline on a loaded XSG
Spec == Init /\ [][Next]_vars

\* one detectSpikes call on every input, with every argument
InitDetect ==
    /\ ret = NoCall
    /\ \E x \in DetectInputs : heap = <<x>>

NextDetect ==
    /\ Len(heap) < 2
    /\ \E edge \in Edges, thresh \in Thresholds(heap[1]),
          filter_trace \in Filters(heap[1]) :
           DetectSpikes(1, thresh, edge, filter_trace)

SpecDetect == InitDetect /\ [][NextDetect]_vars

(***************************************************************************)
(* Properties.                                                              *)
(***************************************************************************)
ValidEdge(edge) == edge \in {"rising", "falling"}

\* the threshold an entry gives sample k (1-based): the wave's k-th value,
\* or the scalar
ThreshAt(entry, k) == IF entry.kind = "wave" THEN entry.vals[k] ELSE entry.vals[1]

\* the 0-based indices i in 0..n-2 at which the trace crosses the threshold
CrossingSet(trace, entry, edge) ==
    {i \in 0..(Len(trace) - 2) :
        IF edge = "rising"
        THEN /\ trace[i + 1] < ThreshAt(entry, i + 1)
             /\ trace[i + 2] > ThreshAt(entry, i + 2)
        ELSE /\ trace[i + 1] > ThreshAt(entry, i + 1)
             /\ trace[i + 2] < ThreshAt(entry, i + 2)}

\* the times i*1000/sampleRate of a set of indices, in ascending order of i
TimesOf(indices, sampleRate) ==
    [k \in 1..Cardinality(indices) |->
        LET i == CHOOSE i \in indices :
                     Cardinality({j \in indices : j < i}) = k - 1
        IN  Rat(i * 1000, sampleRate)]

\* C1: on a single trial, with edge 'rising' or 'falling', detectSpikes
\* succeeds and returns exactly the times i*1000/sampleRate of the indices
\* i in 0..n-2 where the trace crosses the threshold (strictly below then
\* strictly above for 'rising', mirrored for 'falling'), in strictly
\* ascending order of i, an empty sequence when there is no crossing; the
\* example trace with threshold 1, 'rising', 1000 Hz gives [1.0, 5.0].
C1_DetectExact ==
    (ret.op = "detectSpikes" /\ ~IsMerged(heap[ret.in]) /\ ValidEdge(ret.edge))
    => /\ ret.err = "none"
       /\ ret.out # 0
       /\ LET x == heap[ret.in]
              st == heap[ret.out].spikeTimes[1]
              cr == CrossingSet(x.chan0[1], ret.thresh.items[1], ret.edge)
          IN  /\ "spikeTimes" \in heap[ret.out].keys
              /\ st = TimesOf(cr, x.sampleRate[1])
              /\ \A k \in 1..(Len(st) - 1) : RatLt(st[k], st[k + 1])
              /\ cr = {} => st = <<>>
              /\ (/\ x.chan0[1] = ExampleTrace
                  /\ x.sampleRate[1] = 1000
                  /\ ret.thresh = One(Scalar(1))
                  /\ ret.edge = "rising")
                 => /\ Len(st) = 2
                    /\ st[1].num = 1 * st[1].den
                    /\ st[2].num = 5 * st[2].den

\* the example of C1 has run and returned two spike times
C1_Witness ==
    /\ ret.op = "detectSpikes"
    /\ ret.err = "none"
    /\ ret.edge = "rising"
    /\ ret.thresh = One(Scalar(1))
    /\ ~IsMerged(heap[ret.in])
    /\ heap[ret.in].chan0[1] = ExampleTrace
    /\ heap[ret.in].sampleRate[1] = 1000
    /\ Len(heap[ret.out].spikeTimes[1]) = 2

\* C2: a stage call, successful or failed, leaves its input XSG as it was,
\* and so does a later change to the XSG the call returned.
C2_InputUnchanged ==
    [][ret'.in # 0 => heap'[ret'.in] = heap[ret'.in]]_vars

\* makeSpikeDensity returned an XSG, the caller changed it, and the input
\* does not show the change
C2_Witness ==
    /\ ret.op = "annotate"
    /\ ret.sigma # 0
    /\ "note" \in heap[ret.out].keys
    /\ "note" \notin heap[ret.in].keys
    /\ "spikeDensity" \notin heap[ret.in].keys

\* C3: the number of bins makeSTH produces is floor(duration_ms / bin_size)
\* with duration_ms = num_samples / sampleRate * 1000.
C3_BinCountIsFloor ==
    (ret.op = "makeSTH" /\ ret.err = "none")
    => LET x == heap[ret.out]
       IN  \A k \in 1..Len(x.spikeHist.counts) :
               Len(x.spikeHist.counts[k]) =
                   (x.nSamples * 1000) \div (x.sampleRate[1] * ret.binSize)

\* spike time t lies in [0, duration_ms) of XSG x
InDuration(x, t) ==
    /\ t.num >= 0
    /\ t.num * x.sampleRate[1] < x.nSamples * 1000 * t.den

\* C4: the sum of a trial's counts is at most its number of spike times,
\* and equals it when every spike time lies in [0, duration_ms).
C4_NoSpikeLeftOut ==
    (ret.op = "makeSTH" /\ ret.err = "none")
    => LET x == heap[ret.out]
       IN  \A k \in 1..Len(x.spikeHist.counts) :
               /\ SumSeq(x.spikeHist.counts[k]) <= Len(x.spikeTimes[k])
               /\ (\A j \in 1..Len(x.spikeTimes[k]) :
                      InDuration(x, x.spikeTimes[k][j]))
                  => SumSeq(x.spikeHist.counts[k]) = Len(x.spikeTimes[k])

\* the trials extractSpikes pairs with a spike-time sequence
ExtractedTrials(x) ==
    IF IsMerged(x) THEN 1..Min(Len(x.chan0), Len(x.spikeTimes)) ELSE {1}

\* the window of `width` around spike time t lies inside the trace
WindowInside(x, t, width) ==
    /\ SampleOf(t) - (width \div 2) >= 0
    /\ SampleOf(t) + (width \div 2) <= x.nSamples

AllWindowsInside(x, width) ==
    \A k \in ExtractedTrials(x) :
        \A j \in 1..Len(x.spikeTimes[k]) :
            WindowInside(x, x.spikeTimes[k][j], width)

\* C5: for every width, even or odd, when every window lies inside the
\* trace, extractSpikes succeeds and returns, per trial, one column per
\* spike time, each of exactly `width` rows.
C5_ExtractShape ==
    (/\ ret.op = "extractSpikes"
     /\ "spikeTimes" \in heap[ret.in].keys
     /\ AllWindowsInside(heap[ret.in], ret.width))
    => /\ ret.err = "none"
       /\ ret.out # 0
       /\ LET x == heap[ret.out]
          IN  \A k \in ExtractedTrials(heap[ret.in]) :
                  /\ x.extractedSpikes[k].rows = ret.width
                  /\ Len(x.extractedSpikes[k].cols) = Len(x.spikeTimes[k])
                  /\ \A j \in 1..Len(x.extractedSpikes[k].cols) :
                         Len(x.extractedSpikes[k].cols[j]) = ret.width

\* C6: in every XSG on the heap, spikeHist is the histogram of the
\* spikeTimes the XSG holds now, and spikeDensity has the binCenters of the
\* spikeHist the XSG holds now, with rates of the same shape.
C6_DerivedFromCurrent ==
    \A r \in 1..Len(heap) :
        LET x == heap[r]
        IN  /\ "spikeHist" \in x.keys
               => /\ "spikeTimes" \in x.keys
                  /\ Len(x.spikeHist.counts) = Len(x.spikeTimes)
                  /\ \A k \in 1..Len(x.spikeTimes) :
                         x.spikeHist.counts[k] =
                             Histogram(x.spikeTimes[k],
                                       Bins(x.nSamples, x.sampleRate[1],
                                            x.spikeHist.binSize))
            /\ "spikeDensity" \in x.keys
               => /\ "spikeHist" \in x.keys
                  /\ x.spikeDensity.binCenters = x.spikeHist.binCenters
                  /\ Len(x.spikeDensity.rates) = Len(x.spikeHist.rates)
                  /\ \A k \in 1..Len(x.spikeHist.rates) :
                         Len(x.spikeDensity.rates[k]) =
                             Len(x.spikeHist.rates[k])

\* C7: with an edge other than 'rising' and 'falling', detectSpikes fails
\* on every XSG and returns none with a spikeTimes key.
C7_BadEdgeFails ==
    (ret.op = "detectSpikes" /\ ~ValidEdge(ret.edge))
    => /\ ret.err # "none"
       /\ ret.out = 0

\* C8: on a merged XSG of T trials, with any threshold argument, a valid
\* edge and a sampleRate that has a first entry, detectSpikes returns
\* exactly T spike-time sequences, the k-th being the single-trial result
\* for trial k's trace, trial k's threshold (the shared one when the
\* argument is no list) and the first entry of sampleRate.
C8_BatchIsPerTrial ==
    (/\ ret.op = "detectSpikes"
     /\ IsMerged(heap[ret.in])
     /\ ValidEdge(ret.edge)
     /\ heap[ret.in].sampleRate # <<>>)
    => /\ ret.err = "none"
       /\ ret.out # 0
       /\ LET x == heap[ret.in]
              st == heap[ret.out].spikeTimes
          IN  /\ Len(st) = Len(x.chan0)
              /\ \A k \in 1..Len(x.chan0) :
                     st[k] = TimesOf(
                         CrossingSet(x.chan0[k],
                                     IF ret.thresh.isList
                                     THEN ret.thresh.items[k]
                                     ELSE ret.thresh.items[1],
                                     ret.edge),
                         x.sampleRate[1])

\* a merged XSG of two equal trials with unequal sample rates was given a
\* per-trial list of two different thresholds, and the two trials' spike
\* times differ
C8_Witness ==
    /\ ret.op = "detectSpikes"
    /\ ret.err = "none"
    /\ IsMerged(heap[ret.in])
    /\ Len(heap[ret.in].chan0) = 2
    /\ heap[ret.in].chan0[1] = heap[ret.in].chan0[2]
    /\ Len(heap[ret.in].sampleRate) = 2
    /\ heap[ret.in].sampleRate[1] # heap[ret.in].sampleRate[2]
    /\ ret.thresh.isList
    /\ ret.thresh.items[1] # ret.thresh.items[2]
    /\ Len(heap[ret.out].spikeTimes) = 2
    /\ heap[ret.out].spikeTimes[1] # heap[ret.out].spikeTimes[2]

\* some spike's window reaches outside the trace
SomeWindowOutside(x, width) == ~AllWindowsInside(x, width)

\* C9: when some spike's window is not entirely inside the trace,
\* extractSpikes fails and returns no XSG with an extractedSpikes key.
C9_OutOfRangeFails ==
    (/\ ret.op = "extractSpikes"
     /\ "spikeTimes" \in heap[ret.in].keys
     /\ SomeWindowOutside(heap[ret.in], ret.width))
    => /\ ret.err # "none"
       /\ ret.out = 0

\* C10: the kernel support makeSpikeDensity builds is symmetric about zero:
\* it starts at -3*sigma, and with every point x it holds -x.
C10_KernelSymmetric ==
    (ret.op = "makeSpikeDensity" /\ ret.err = "none")
    => LET kernel == heap[ret.out].spikeDensity.kernel
       IN  /\ kernel[1].x = -3 * ret.sigma
           /\ \A k \in 1..Len(kernel) :
                  \E j \in 1..Len(kernel) : kernel[j].x = -kernel[k].x

====
